---- MODULE Spec2Model ----
(***************************************************************************)
(* Roman numeral converter (src/Roman_Numeral_Converter.py): the two       *)
(* codecs, the conversion history, the coordinator and the CSV / TXT       *)
(* persistence of the history.                                             *)
(*                                                                         *)
(* Python values are tagged: an int is IntV(n), a str is StrV(s) with s    *)
(* the sequence of its characters, None is NoneV.  A text is a sequence of *)
(* one-character strings; the character U+2192 is written Arrow.           *)
(***************************************************************************)
EXTENDS Integers, Sequences, FiniteSets, TLC

VARIABLES heap, history, snapshot, fresh, fs, call, ret

vars == <<heap, history, snapshot, fresh, fs, call, ret>>

(***************************************************************************)
(* Bounds of the model.                                                    *)
(***************************************************************************)
\* decimals tried reach this far below 1 and above 3999
NumSlack == 2
\* longest history a conversion or a load may produce
MaxHist == 3
\* most record objects the ledger specification allocates
MaxHeap == 2

(***************************************************************************)
(* Python values.                                                          *)
(***************************************************************************)
IntV(n) == [t |-> "int", n |-> n, s |-> <<>>]
StrV(s) == [t |-> "str", n |-> 0, s |-> s]
NoneV == [t |-> "none", n |-> 0, s |-> <<>>]

\* how a call ended: st is "ok" or the exception raised, val the value returned,
\* out the message printed
Result(st, val, out) == [st |-> st, val |-> val, out |-> out]
Ok(v) == Result("ok", v, "")
Raise(e) == Result(e, NoneV, "")

Arrow == "->"

Digit(d) == CASE d = 0 -> "0" [] d = 1 -> "1" [] d = 2 -> "2" [] d = 3 -> "3"
              [] d = 4 -> "4" [] d = 5 -> "5" [] d = 6 -> "6" [] d = 7 -> "7"
              [] d = 8 -> "8" [] d = 9 -> "9"

RECURSIVE Digits(_)
Digits(n) == IF n < 10 THEN <<Digit(n)>> ELSE Append(Digits(n \div 10), Digit(n % 10))

\* str(n) of an int
IntText(n) == IF n < 0 THEN <<"-">> \o Digits(0 - n) ELSE Digits(n)

\* str(v), as an f-string and csv.writer format a field
TextOf(v) == IF v.t = "int" THEN IntText(v.n) ELSE v.s

(***************************************************************************)
(* RomanToDecimalConverter                                                 *)
(***************************************************************************)
RomanSymbols == {"I", "V", "X", "L", "C", "D", "M"}

roman_values(c) == CASE c = "I" -> 1 [] c = "V" -> 5 [] c = "X" -> 10 [] c = "L" -> 50
                     [] c = "C" -> 100 [] c = "D" -> 500 [] c = "M" -> 1000

\* the loop with <= for <: a repeated symbol is subtracted
RECURSIVE RomanLoopLe(_, _, _, _)
RomanLoopLe(s, i, total, prev_value) ==
    IF i = 0 THEN total
    ELSE LET value == roman_values(s[i])
         IN  IF value <= prev_value
             THEN RomanLoopLe(s, i - 1, total - value, value)
             ELSE RomanLoopLe(s, i - 1, total + value, value)

\* the loop over reversed(roman): position i, running total, previous value
RECURSIVE RomanLoop(_, _, _, _)
RomanLoop(s, i, total, prev_value) ==
    IF i = 0 THEN total
    ELSE LET value == roman_values(s[i])
         IN  IF value < prev_value
             THEN RomanLoop(s, i - 1, total - value, value)
             ELSE RomanLoop(s, i - 1, total + value, value)

RomanToDecimalConverter_convert(roman) ==
    IF roman.t # "str" THEN Raise("TypeError")
    ELSE IF \E i \in 1..Len(roman.s) : roman.s[i] \notin RomanSymbols THEN Raise("KeyError")
    ELSE Ok(IntV(RomanLoop(roman.s, Len(roman.s), 0, 0)))

(***************************************************************************)
(* DecimalToRomanConverter                                                 *)
(***************************************************************************)
value_map ==
    << <<1000, <<"M">> >>, <<900, <<"C", "M">> >>, <<500, <<"D">> >>, <<400, <<"C", "D">> >>,
       <<100, <<"C">> >>, <<90, <<"X", "C">> >>, <<50, <<"L">> >>, <<40, <<"X", "L">> >>,
       <<10, <<"X">> >>, <<9, <<"I", "X">> >>, <<5, <<"V">> >>, <<4, <<"I", "V">> >>,
       <<1, <<"I">> >> >>

\* the for / while loops over _value_map, from entry i on
RECURSIVE Greedy(_, _)
Greedy(num, i) ==
    IF i > Len(value_map) THEN <<>>
    ELSE IF num >= value_map[i][1]
         THEN value_map[i][2] \o Greedy(num - value_map[i][1], i)
         ELSE Greedy(num, i + 1)

\* the range check with the ends let in
InRangeInclusive(num) == 0 <= num /\ num <= 4000

\* 0 < num < 4000
InRange(num) == 0 < num /\ num < 4000

OutOfRange == "ValueError: Number must be between 1 and 3999"

DecimalToRomanConverter_convert(num) ==
    IF num.t # "int" THEN Raise("TypeError")
    ELSE IF ~InRange(num.n) THEN Raise(OutOfRange)
    ELSE Ok(StrV(Greedy(num.n, 1)))

(***************************************************************************)
(* Texts: the str methods the persistence code uses.                       *)
(***************************************************************************)
Whitespace == {" ", "\n", "\r", "\t"}

MatchAt(s, sep, i) ==
    /\ i + Len(sep) - 1 <= Len(s)
    /\ \A k \in 1..Len(sep) : s[i + k - 1] = sep[k]

\* str.find: the first position of sep in s, 0 when there is none
Find(s, sep) ==
    LET at == {i \in 1..Len(s) : MatchAt(s, sep, i)}
    IN  IF at = {} THEN 0 ELSE CHOOSE i \in at : \A j \in at : i <= j

\* sub in s
Contains(s, sub) == Find(s, sub) # 0

\* s.split(sep)
RECURSIVE Split(_, _)
Split(s, sep) ==
    LET j == Find(s, sep)
    IN  IF j = 0 THEN <<s>>
        ELSE <<SubSeq(s, 1, j - 1)>> \o Split(SubSeq(s, j + Len(sep), Len(s)), sep)

RECURSIVE LStrip(_, _)
LStrip(s, cs) == IF s # <<>> /\ s[1] \in cs THEN LStrip(Tail(s), cs) ELSE s

RECURSIVE RStrip(_, _)
RStrip(s, cs) ==
    IF s # <<>> /\ s[Len(s)] \in cs THEN RStrip(SubSeq(s, 1, Len(s) - 1), cs) ELSE s

\* s.strip()
Strip(s) == LStrip(RStrip(s, Whitespace), Whitespace)

RECURSIVE Join(_, _)
Join(parts, sep) ==
    IF Len(parts) = 0 THEN <<>>
    ELSE IF Len(parts) = 1 THEN parts[1]
    ELSE parts[1] \o sep \o Join(Tail(parts), sep)

(***************************************************************************)
(* ConversionHistory: _history is a list of references to dict objects;    *)
(* heap[r] is the dict that reference r names.                             *)
(***************************************************************************)
ROMAN == StrV(<<"r", "o", "m", "a", "n">>)
DECIMAL == StrV(<<"d", "e", "c", "i", "m", "a", "l">>)

Record(from_val, to_val, direction) ==
    [input |-> from_val, output |-> to_val, type |-> direction]

\* the dicts a list of references names, in the order of the list
Records(refs) == [i \in 1..Len(refs) |-> heap[refs[i]]]

Ledger == [heap |-> heap, history |-> history]

\* _history.append({...}) with the arguments swapped into the wrong keys
add_record_swapped(l, from_val, to_val, direction) ==
    [heap |-> Append(l.heap, Record(to_val, from_val, direction)),
     history |-> Append(l.history, Len(l.heap) + 1)]

\* _history.append({...}): a new dict, and a reference to it at the end
add_record(l, from_val, to_val, direction) ==
    [heap |-> Append(l.heap, Record(from_val, to_val, direction)),
     history |-> Append(l.history, Len(l.heap) + 1)]

\* self._history.copy(): a new list of the same references
get_history(l) == l.history

\* add_record for each dict of recs that the ledger does not hold yet
RECURSIVE AddAll_nodup(_, _)
AddAll_nodup(l, recs) ==
    IF recs = <<>> THEN l
    ELSE IF \E i \in 1..Len(l.history) : l.heap[l.history[i]] = recs[1]
    THEN AddAll_nodup(l, Tail(recs))
    ELSE AddAll_nodup(add_record(l, recs[1].input, recs[1].output, recs[1].type), Tail(recs))

\* add_record for each dict of recs, in order
RECURSIVE AddAll(_, _)
AddAll(l, recs) ==
    IF recs = <<>> THEN l
    ELSE AddAll(add_record(l, recs[1].input, recs[1].output, recs[1].type), Tail(recs))

(***************************************************************************)
(* ConverterFactory and ConversionSystem.convert                           *)
(***************************************************************************)
get_converter(converter_type) ==
    IF converter_type = ROMAN THEN "RomanToDecimalConverter"
    ELSE IF converter_type = DECIMAL THEN "DecimalToRomanConverter"
    ELSE "None"

converter_convert(converter, value) ==
    IF converter = "RomanToDecimalConverter"
    THEN RomanToDecimalConverter_convert(value)
    ELSE DecimalToRomanConverter_convert(value)

InvalidType == "ValueError: Invalid conversion type"

Call(op, value, ty, file) == [op |-> op, value |-> value, type |-> ty, file |-> file]

(***************************************************************************)
(* Files: save_to_csv, save_to_txt and what the loads read back.           *)
(***************************************************************************)
NoFile == [exists |-> FALSE, lines |-> <<>>]
File(lines) == [exists |-> TRUE, lines |-> lines]

CsvHeader == <<<<"i", "n", "p", "u", "t">>, <<"o", "u", "t", "p", "u", "t">>, <<"t", "y", "p", "e">>>>

\* csv.writer's row: the fields' str() joined by commas, ended by \r\n (no field
\* the program writes holds a comma, a quote or a line break, so none is quoted)
CsvRow(fields) == Join(fields, <<",">>) \o <<"\r", "\n">>

\* DictWriter.writeheader and writerows
CsvLines(recs) ==
    <<CsvRow(CsvHeader)>>
      \o [i \in 1..Len(recs) |->
            CsvRow(<<TextOf(recs[i].input), TextOf(recs[i].output), TextOf(recs[i].type)>>)]

RomanDecimalLabel == <<"R", "o", "m", "a", "n", Arrow, "D", "e", "c", "i", "m", "a", "l">>
DecimalRomanLabel == <<"D", "e", "c", "i", "m", "a", "l", Arrow, "R", "o", "m", "a", "n">>

TxtLine(rec) ==
    LET direction == IF rec.type = ROMAN THEN RomanDecimalLabel ELSE DecimalRomanLabel
    IN  TextOf(rec.input) \o <<" ", Arrow, " ">> \o TextOf(rec.output)
          \o <<" ", "(">> \o direction \o <<")", "\n">>

TxtLines(recs) ==
    <<<<"C", "o", "n", "v", "e", "r", "s", "i", "o", "n", " ", "H", "i", "s", "t", "o", "r", "y", ":", "\n">>, <<"=", "=", "=", "=", "=", "=", "=", "=", "=", "=", "=", "=", "=", "=", "=", "=", "=", "=", "\n">>>> \o [i \in 1..Len(recs) |-> TxtLine(recs[i])]

\* the file as open(filename, 'r') yields it: \r\n read as \n
Universal(line) ==
    IF Len(line) >= 2 /\ line[Len(line) - 1] = "\r" /\ line[Len(line)] = "\n"
    THEN SubSeq(line, 1, Len(line) - 2) \o <<"\n">>
    ELSE line

\* csv.reader's row of a line: [] for a blank line, else the comma-separated fields
CsvFields(line) ==
    LET body == RStrip(Universal(line), {"\r", "\n"})
    IN  IF body = <<>> THEN <<>> ELSE Split(body, <<",">>)

\* row[key] of a DictReader row: KeyError when the header has no such field, None
\* (restval) when the row is shorter than the header
HasKey(header, key) == \E i \in 1..Len(header) : header[i] = key

RowGet(header, row, key) ==
    LET i == CHOOSE k \in 1..Len(header) :
                 header[k] = key /\ \A j \in 1..Len(header) : header[j] = key => j <= k
    IN  IF i <= Len(row) THEN StrV(row[i]) ELSE NoneV

Loaded(recs, err) == [recs |-> recs, err |-> err]

\* the for loop of load_from_csv over the rows after the header, from line i on:
\* the dicts added until the loop ends or raises
RECURSIVE CsvLoop(_, _, _, _)
CsvLoop(lines, header, i, acc) ==
    IF i > Len(lines) THEN Loaded(acc, "none")
    ELSE LET row == CsvFields(lines[i])
         IN  IF row = <<>> THEN CsvLoop(lines, header, i + 1, acc)
             ELSE IF ~(HasKey(header, CsvHeader[1]) /\ HasKey(header, CsvHeader[2])
                         /\ HasKey(header, CsvHeader[3]))
             THEN Loaded(acc, "KeyError")
             ELSE CsvLoop(lines, header, i + 1,
                          Append(acc, Record(RowGet(header, row, CsvHeader[1]),
                                             RowGet(header, row, CsvHeader[2]),
                                             RowGet(header, row, CsvHeader[3]))))

\* csv.DictReader: the first non-blank row is the header
RECURSIVE FirstRow(_, _)
FirstRow(lines, i) ==
    IF i > Len(lines) THEN 0
    ELSE IF CsvFields(lines[i]) # <<>> THEN i ELSE FirstRow(lines, i + 1)

ReadCsv(lines) ==
    LET h == FirstRow(lines, 1)
    IN  IF h = 0 THEN Loaded(<<>>, "none")
        ELSE CsvLoop(lines, CsvFields(lines[h]), h + 1, <<>>)

\* one line of load_from_txt: the dict it adds, none, or the error it raises
TxtLineLoad(line) ==
    IF ~(\E i \in 1..Len(line) : line[i] = Arrow) THEN Loaded(<<>>, "none")
    ELSE LET parts == Split(Strip(line), <<" ", Arrow, " ">>)
         IN  IF Len(parts) # 2 THEN Loaded(<<>>, "none")
             ELSE LET input_val == parts[1]
                      rest == Split(parts[2], <<" ", "(">>)
                  IN  IF Len(rest) # 2 THEN Loaded(<<>>, "ValueError: unpack")
                      ELSE LET output_val == rest[1]
                               conv_type == RStrip(rest[2], {")"})
                           IN  IF Contains(conv_type, RomanDecimalLabel)
                               THEN Loaded(<<Record(StrV(input_val), StrV(output_val), ROMAN)>>,
                                           "none")
                               ELSE Loaded(<<Record(StrV(output_val), StrV(input_val), DECIMAL)>>,
                                           "none")

\* the for loop of load_from_txt from line i on
RECURSIVE TxtLoop(_, _, _)
TxtLoop(lines, i, acc) ==
    IF i > Len(lines) THEN Loaded(acc, "none")
    ELSE LET one == TxtLineLoad(Universal(lines[i]))
         IN  IF one.err # "none" THEN Loaded(acc, one.err)
             ELSE TxtLoop(lines, i + 1, acc \o one.recs)

ReadTxt(lines) == TxtLoop(lines, 1, <<>>)

(***************************************************************************)
(* The state.  heap, history: the ConversionSystem's ConversionHistory.    *)
(* snapshot: a list get_history returned to a caller.  fresh: the dicts of *)
(* the history of the second ConversionSystem that the last call           *)
(* constructed and loaded (empty when it constructed none).  fs: the       *)
(* files.  call, ret: the last call and how it ended.                      *)
(***************************************************************************)
\* the file names the saves write, and the names the loads read: those and one
\* that no save writes
SaveFiles == {"conversions"}
Files == SaveFiles \cup {"missing"}

\* the values and conversion types the calls are tried with
Values ==
    {StrV(<<>>), StrV(<<"I", "V">>), StrV(<<"I", "I", "I", "I">>),
     StrV(<<"M", "C", "M", "X", "C", "I", "V">>), StrV(<<"I", "A">>),
     IntV(0 - 1), IntV(0), IntV(4), IntV(1994), IntV(3999), IntV(4000)}
ConversionTypes_other == StrV(<<"b", "i", "n", "a", "r", "y">>)
ConversionTypes == {ROMAN, DECIMAL, ConversionTypes_other, StrV(<<>>), NoneV}

Init ==
    /\ heap = <<>>
    /\ history = <<>>
    /\ snapshot = <<>>
    /\ fresh = <<>>
    /\ fs = [f \in Files |-> NoFile]
    /\ call = Call("init", NoneV, NoneV, "")
    /\ ret = Ok(NoneV)

\* convert that records the call before the codec has returned
convert_record_first(value, conversion_type) ==
    LET converter == get_converter(conversion_type)
        result == converter_convert(converter, value)
        l == add_record(Ledger, value, result.val,
                        IF conversion_type = ROMAN THEN ROMAN ELSE DECIMAL)
    IN  /\ call' = Call("convert", value, conversion_type, "")
        /\ fresh' = <<>> /\ UNCHANGED <<snapshot, fs>>
        /\ IF converter = "None"
           THEN ret' = Raise(InvalidType) /\ UNCHANGED <<heap, history>>
           ELSE /\ Len(history) < MaxHist
                /\ heap' = l.heap
                /\ history' = l.history
                /\ ret' = result

convert(value, conversion_type) ==
    LET converter == get_converter(conversion_type)
        result == converter_convert(converter, value)
        l == add_record(Ledger, value, result.val,
                        IF conversion_type = ROMAN THEN ROMAN ELSE DECIMAL)
    IN  /\ call' = Call("convert", value, conversion_type, "")
        /\ fresh' = <<>> /\ UNCHANGED <<snapshot, fs>>
        /\ IF converter = "None"
           THEN ret' = Raise(InvalidType) /\ UNCHANGED <<heap, history>>
           ELSE IF result.st # "ok"
           THEN ret' = result /\ UNCHANGED <<heap, history>>
           ELSE /\ Len(history) < MaxHist
                /\ heap' = l.heap
                /\ history' = l.history
                /\ ret' = result

save_to_csv(filename) ==
    /\ call' = Call("save_to_csv", NoneV, NoneV, filename)
    /\ fs' = [fs EXCEPT ![filename] = File(CsvLines(Records(get_history(Ledger))))]
    /\ ret' = Result("ok", NoneV, "History saved")
    /\ fresh' = <<>> /\ UNCHANGED <<heap, history, snapshot>>

save_to_txt(filename) ==
    /\ call' = Call("save_to_txt", NoneV, NoneV, filename)
    /\ fs' = [fs EXCEPT ![filename] = File(TxtLines(Records(get_history(Ledger))))]
    /\ ret' = Result("ok", NoneV, "History saved")
    /\ fresh' = <<>> /\ UNCHANGED <<heap, history, snapshot>>

\* a load that lets FileNotFoundError through
Load_raises(l, file, read) ==
    IF ~file.exists THEN [ledger |-> l, ret |-> Raise("FileNotFoundError")]
    ELSE [ledger |-> AddAll(l, read.recs),
          ret |-> IF read.err = "none" THEN Result("ok", NoneV, "History loaded")
                  ELSE Raise(read.err)]

\* a load into ledger l: the ledger after it and how the call ended
Load(l, file, read) ==
    IF ~file.exists THEN [ledger |-> l, ret |-> Result("ok", NoneV, "Error: not found")]
    ELSE [ledger |-> AddAll(l, read.recs),
          ret |-> IF read.err = "none" THEN Result("ok", NoneV, "History loaded")
                  ELSE Raise(read.err)]

load_from_csv(filename) ==
    LET r == Load(Ledger, fs[filename], ReadCsv(fs[filename].lines))
    IN  /\ Len(r.ledger.history) <= MaxHist
        /\ call' = Call("load_from_csv", NoneV, NoneV, filename)
        /\ heap' = r.ledger.heap
        /\ history' = r.ledger.history
        /\ ret' = r.ret
        /\ fresh' = <<>> /\ UNCHANGED <<snapshot, fs>>

load_from_txt(filename) ==
    LET r == Load(Ledger, fs[filename], ReadTxt(fs[filename].lines))
    IN  /\ Len(r.ledger.history) <= MaxHist
        /\ call' = Call("load_from_txt", NoneV, NoneV, filename)
        /\ heap' = r.ledger.heap
        /\ history' = r.ledger.history
        /\ ret' = r.ret
        /\ fresh' = <<>> /\ UNCHANGED <<snapshot, fs>>

EmptyLedger == [heap |-> <<>>, history |-> <<>>]

\* ConversionSystem() followed by its load_from_csv(filename)
fresh_load_from_csv(filename) ==
    LET r == Load(EmptyLedger, fs[filename], ReadCsv(fs[filename].lines))
    IN  /\ call' = Call("fresh.load_from_csv", NoneV, NoneV, filename)
        /\ fresh' = [i \in 1..Len(r.ledger.history) |-> r.ledger.heap[r.ledger.history[i]]]
        /\ ret' = r.ret
        /\ UNCHANGED <<heap, history, snapshot, fs>>

\* ConversionSystem() followed by its load_from_txt(filename)
fresh_load_from_txt(filename) ==
    LET r == Load(EmptyLedger, fs[filename], ReadTxt(fs[filename].lines))
    IN  /\ call' = Call("fresh.load_from_txt", NoneV, NoneV, filename)
        /\ fresh' = [i \in 1..Len(r.ledger.history) |-> r.ledger.heap[r.ledger.history[i]]]
        /\ ret' = r.ret
        /\ UNCHANGED <<heap, history, snapshot, fs>>

\* the conversions tried between saves and loads: three that succeed, one that
\* fails in each way
Conversions ==
    {<<StrV(<<>>), ROMAN>>, <<StrV(<<"I", "V">>), ROMAN>>, <<IntV(4), DECIMAL>>,
     <<StrV(<<"I", "A">>), ROMAN>>, <<IntV(0), DECIMAL>>, <<IntV(4), ConversionTypes_other>>}

Next ==
    \/ \E c \in Conversions : convert(c[1], c[2])
    \/ \E filename \in SaveFiles : save_to_csv(filename)
    \/ \E filename \in SaveFiles : save_to_txt(filename)
    \/ \E filename \in Files : load_from_csv(filename)
    \/ \E filename \in Files : load_from_txt(filename)
    \/ \E filename \in Files : fresh_load_from_csv(filename)
    \/ \E filename \in Files : fresh_load_from_txt(filename)

Spec == Init /\ [][Next]_vars

(***************************************************************************)
(* The coordinator alone, over every value with every conversion type.     *)
(***************************************************************************)
NextConvert ==
    \E value \in Values, conversion_type \in ConversionTypes : convert(value, conversion_type)

SpecConvert == Init /\ [][NextConvert]_vars

(***************************************************************************)
(* The codecs alone: DecimalToRomanConverter.convert on every decimal from *)
(* -NumSlack to 4000 + NumSlack, RomanToDecimalConverter.convert on what   *)
(* it returned and on every value of Values.                               *)
(***************************************************************************)
Decimals == (0 - NumSlack)..(4000 + NumSlack)

codec_decimal(n) ==
    /\ call.op = "init"
    /\ call' = Call("DecimalToRomanConverter.convert", IntV(n), NoneV, "")
    /\ ret' = DecimalToRomanConverter_convert(IntV(n))
    /\ UNCHANGED <<heap, history, snapshot, fresh, fs>>

codec_roman(value) ==
    /\ call.op = "init"
    /\ call' = Call("RomanToDecimalConverter.convert", value, NoneV, "")
    /\ ret' = RomanToDecimalConverter_convert(value)
    /\ UNCHANGED <<heap, history, snapshot, fresh, fs>>

\* the numeral DecimalToRomanConverter.convert returned, converted back
codec_back ==
    /\ call.op = "DecimalToRomanConverter.convert"
    /\ ret.st = "ok"
    /\ call' = Call("RomanToDecimalConverter.convert", ret.val, NoneV, "")
    /\ ret' = RomanToDecimalConverter_convert(ret.val)
    /\ UNCHANGED <<heap, history, snapshot, fresh, fs>>

NextCodec ==
    \/ \E n \in Decimals : codec_decimal(n)
    \/ \E value \in Values : codec_roman(value)
    \/ codec_back

SpecCodec == Init /\ [][NextCodec]_vars

(***************************************************************************)
(* The ledger alone, with a caller that keeps the list get_history         *)
(* returned and mutates it.                                                *)
(***************************************************************************)
LedgerRecords ==
    {Record(StrV(<<"I", "V">>), IntV(4), ROMAN), Record(IntV(4), StrV(<<"I", "V">>), DECIMAL)}

Keys == {"input", "output", "type"}

ledger_add_record(rec) ==
    LET l == add_record(Ledger, rec.input, rec.output, rec.type)
    IN  /\ Len(heap) < MaxHeap
        /\ call' = Call("add_record", NoneV, NoneV, "")
        /\ heap' = l.heap
        /\ history' = l.history
        /\ ret' = Ok(NoneV)
        /\ UNCHANGED <<snapshot, fresh, fs>>

ledger_get_history ==
    /\ call' = Call("get_history", NoneV, NoneV, "")
    /\ snapshot' = get_history(Ledger)
    /\ ret' = Ok(NoneV)
    /\ UNCHANGED <<heap, history, fresh, fs>>

\* snapshot.append(snapshot[i])
snapshot_append(i) ==
    /\ Len(snapshot) < MaxHeap
    /\ call' = Call("snapshot.append", NoneV, NoneV, "")
    /\ snapshot' = Append(snapshot, snapshot[i])
    /\ ret' = Ok(NoneV)
    /\ UNCHANGED <<heap, history, fresh, fs>>

\* snapshot.pop(i)
snapshot_pop(i) ==
    /\ call' = Call("snapshot.pop", NoneV, NoneV, "")
    /\ snapshot' = SubSeq(snapshot, 1, i - 1) \o SubSeq(snapshot, i + 1, Len(snapshot))
    /\ ret' = Ok(NoneV)
    /\ UNCHANGED <<heap, history, fresh, fs>>

\* snapshot.reverse()
snapshot_reverse ==
    /\ Len(snapshot) > 1
    /\ call' = Call("snapshot.reverse", NoneV, NoneV, "")
    /\ snapshot' = [i \in 1..Len(snapshot) |-> snapshot[Len(snapshot) + 1 - i]]
    /\ ret' = Ok(NoneV)
    /\ UNCHANGED <<heap, history, fresh, fs>>

\* snapshot[i][key] = value
snapshot_setitem(i, key, value) ==
    /\ call' = Call("snapshot.setitem", NoneV, NoneV, "")
    /\ heap' = [heap EXCEPT ![snapshot[i]] = [@ EXCEPT ![key] = value]]
    /\ ret' = Ok(NoneV)
    /\ UNCHANGED <<history, snapshot, fresh, fs>>

NextLedger ==
    \/ \E rec \in LedgerRecords : ledger_add_record(rec)
    \/ ledger_get_history
    \/ \E i \in 1..Len(snapshot) : snapshot_append(i)
    \/ \E i \in 1..Len(snapshot) : snapshot_pop(i)
    \/ snapshot_reverse
    \/ \E i \in 1..Len(snapshot), key \in Keys : snapshot_setitem(i, key, StrV(<<"X">>))

SpecLedger == Init /\ [][NextLedger]_vars

(***************************************************************************)
(* Properties.                                                             *)
(***************************************************************************)
\* the dicts of a history, given the heap
RecordsOf(hp, refs) == [i \in 1..Len(refs) |-> hp[refs[i]]]

IsRomanText(v) == v.t = "str" /\ \A i \in 1..Len(v.s) : v.s[i] \in RomanSymbols

DigitChars == {"0", "1", "2", "3", "4", "5", "6", "7", "8", "9"}

IsDecimalText(v) ==
    \/ v.t = "int"
    \/ v.t = "str" /\ v.s # <<>> /\ \A i \in 1..Len(v.s) : v.s[i] \in DigitChars

\* records as successful convert calls make them
ConvertBorn(recs) ==
    \A i \in 1..Len(recs) :
        \/ recs[i].type = ROMAN /\ recs[i].input.t = "str" /\ recs[i].output.t = "int"
        \/ recs[i].type = DECIMAL /\ recs[i].input.t = "int" /\ recs[i].output.t = "str"

\* C1: for every decimal n of 1..3999, the numeral DecimalToRomanConverter.convert
\* returns for n is converted back to n by RomanToDecimalConverter.convert
C1_RoundTrip ==
    [][(/\ call.op = "DecimalToRomanConverter.convert"
        /\ call.value.n \in 1..3999
        /\ call'.op = "RomanToDecimalConverter.convert")
       => (ret.st = "ok" /\ call'.value = ret.val /\ ret' = Ok(call.value))]_vars

C1_Witness ==
    /\ call.op = "RomanToDecimalConverter.convert"
    /\ call.value = StrV(<<"M", "C", "M", "X", "C", "I", "V">>)
    /\ ret = Ok(IntV(1994))

\* C2: DecimalToRomanConverter.convert(n) raises the out-of-range error when n <= 0
\* or n >= 4000, and returns normally when 1 <= n <= 3999
C2_OutOfRange ==
    call.op = "DecimalToRomanConverter.convert" =>
        /\ (call.value.n <= 0 \/ call.value.n >= 4000) => ret.st = OutOfRange
        /\ (1 <= call.value.n /\ call.value.n <= 3999) => ret.st = "ok"

C2_Witness ==
    /\ call.op = "DecimalToRomanConverter.convert"
    /\ call.value = IntV(4000)
    /\ ret.st = OutOfRange

\* C3: convert(value, type) with type "roman" or "decimal" and a value the codec
\* accepts appends exactly one record (input = value, output = the result, type =
\* type) at the end of the history and returns the codec's result; with any other
\* type it raises the invalid-conversion-type error
C3_Convert ==
    [][call'.op = "convert" =>
        LET codec == IF call'.type = ROMAN
                     THEN RomanToDecimalConverter_convert(call'.value)
                     ELSE DecimalToRomanConverter_convert(call'.value)
        IN  IF call'.type \in {ROMAN, DECIMAL}
            THEN codec.st = "ok" =>
                    /\ ret' = codec
                    /\ RecordsOf(heap', history') =
                         Append(RecordsOf(heap, history),
                                Record(call'.value, ret'.val, call'.type))
            ELSE ret'.st = InvalidType]_vars

C3_Witness ==
    /\ call = Call("convert", IntV(1994), DECIMAL, "")
    /\ ret = Ok(StrV(<<"M", "C", "M", "X", "C", "I", "V">>))
    /\ Len(history) = 2
    /\ heap[history[2]] = Record(IntV(1994), StrV(<<"M", "C", "M", "X", "C", "I", "V">>), DECIMAL)
    /\ heap[history[1]].type = ROMAN

\* C4: get_history returns the records in insertion order, as many as were added,
\* and no mutation of a returned list (append, pop, reverse, or setting a field of
\* a record in it) changes the records of the ledger
C4_SnapshotIndependent ==
    [][/\ call'.op = "get_history" =>
            (Len(snapshot') = Len(heap) /\ \A i \in 1..Len(snapshot') : snapshot'[i] = i)
       /\ call'.op \in {"snapshot.append", "snapshot.pop", "snapshot.reverse",
                         "snapshot.setitem"} =>
            RecordsOf(heap', history') = RecordsOf(heap, history)]_vars

\* C5: for a history made by successful convert calls, save_to_csv followed by
\* load_from_csv of that file into a new ConversionSystem gives a history equal to
\* the original, each value with the original's representation (int or str)
C5_CsvRoundTrip ==
    (/\ call.op = "fresh.load_from_csv"
     /\ fs[call.file] = File(CsvLines(RecordsOf(heap, history)))
     /\ ConvertBorn(RecordsOf(heap, history)))
    => fresh = RecordsOf(heap, history)

\* C6: for a history made by successful convert calls, save_to_txt followed by
\* load_from_txt of that file into a new ConversionSystem gives a history of the
\* same length and order, the "roman" records with the same input and output and
\* the "decimal" records with input and output swapped (values compared as text)
C6_TxtRoundTrip ==
    (/\ call.op = "fresh.load_from_txt"
     /\ fs[call.file] = File(TxtLines(RecordsOf(heap, history)))
     /\ ConvertBorn(RecordsOf(heap, history)))
    => /\ Len(fresh) = Len(history)
       /\ \A i \in 1..Len(history) :
            LET orig == heap[history[i]]
            IN  /\ i <= Len(fresh)
                /\ fresh[i].type = orig.type
                /\ orig.type = ROMAN =>
                     /\ TextOf(fresh[i].input) = TextOf(orig.input)
                     /\ TextOf(fresh[i].output) = TextOf(orig.output)
                /\ orig.type = DECIMAL =>
                     /\ TextOf(fresh[i].input) = TextOf(orig.output)
                     /\ TextOf(fresh[i].output) = TextOf(orig.input)

\* C7: load_from_csv and load_from_txt of a file that does not exist return
\* normally, report that it was not found, and leave the history as it was
C7_MissingFile ==
    [][(/\ call'.op \in {"load_from_csv", "load_from_txt"}
        /\ ~fs[call'.file].exists)
       => (/\ ret' = Result("ok", NoneV, "Error: not found")
           /\ heap' = heap
           /\ history' = history)]_vars

C7_Witness ==
    /\ call.op = "load_from_txt"
    /\ ~fs[call.file].exists
    /\ ret.out = "Error: not found"
    /\ Len(history) = 2
    /\ heap[1].output.t = "int"
    /\ heap[2].output.t = "str"
    /\ heap[2].input.t = "str"

\* C8: every record of the history has a Roman-numeral input and a decimal output
\* when its type is "roman", a decimal input and a Roman-numeral output when its
\* type is "decimal"
C8_DirectionInvariant ==
    \A i \in 1..Len(history) :
        LET rec == heap[history[i]]
        IN  /\ rec.type = ROMAN => (IsRomanText(rec.input) /\ IsDecimalText(rec.output))
            /\ rec.type = DECIMAL => (IsDecimalText(rec.input) /\ IsRomanText(rec.output))

\* C9: every convert, save and load leaves the history it found as a prefix of the
\* history it leaves; a load of an existing file adds exactly the records read
\* from the file, after the existing ones, each time it is called
C9_AppendOnly ==
    [][/\ Len(history) <= Len(history')
       /\ SubSeq(RecordsOf(heap', history'), 1, Len(history)) = RecordsOf(heap, history)
       /\ (call'.op = "load_from_csv" /\ fs[call'.file].exists) =>
             RecordsOf(heap', history') =
                 RecordsOf(heap, history) \o ReadCsv(fs[call'.file].lines).recs
       /\ (call'.op = "load_from_txt" /\ fs[call'.file].exists) =>
             RecordsOf(heap', history') =
                 RecordsOf(heap, history) \o ReadTxt(fs[call'.file].lines).recs]_vars

\* the file holds one record, and the history is an older record followed by the
\* file's record twice
C9_Witness ==
    /\ call.op = "load_from_csv"
    /\ fs[call.file].exists
    /\ Len(ReadCsv(fs[call.file].lines).recs) = 1
    /\ Len(history) = 3
    /\ heap[history[1]].output.t = "int"
    /\ heap[history[2]] = ReadCsv(fs[call.file].lines).recs[1]
    /\ heap[history[3]] = heap[history[2]]

\* C10: a convert call that fails (a character outside I V X L C D M, a decimal
\* outside 1..3999, an unknown conversion type) leaves the history unchanged
C10_FailedConvert ==
    [][call'.op = "convert" =>
        /\ (\/ call'.type = ROMAN /\ call'.value.t = "str" /\ ~IsRomanText(call'.value)
            \/ call'.type = DECIMAL /\ call'.value.t = "int" /\ call'.value.n \notin 1..3999
            \/ call'.type \notin {ROMAN, DECIMAL}) => ret'.st # "ok"
        /\ ret'.st # "ok" => (heap' = heap /\ history' = history)]_vars

C10_Witness ==
    /\ call = Call("convert", StrV(<<"I", "A">>), ROMAN, "")
    /\ ret.st = "KeyError"
    /\ Len(history) = 2

====
